---------------------------- MODULE Spec2Model ----------------------------
(***************************************************************************)
(* A model of the sparse indirect linear-system solver of                  *)
(* linsys/indirect/private.c: the transpose construction, the Jacobi       *)
(* preconditioner, the implicit operator rho*I + A'A, the preconditioned   *)
(* conjugate-gradient kernel, solveLinSys with its tolerance schedule and  *)
(* the file-scope running counters.                                        *)
(*                                                                         *)
(* pfloat values are modelled in exact arithmetic as fractions <<n, d>>    *)
(* with d > 0 in lowest terms; the IEEE results of a division by zero are  *)
(* kept: <<0, 0>> is NaN, <<1, 0>> and <<-1, 0>> are the infinities.       *)
(* C arrays are functions on 0 .. len-1.                                   *)
(***************************************************************************)
EXTENDS Integers, Sequences, FiniteSets, Bags, TLC

(***************************************************************************)
(* Bounds of the model.                                                    *)
(***************************************************************************)
MaxM == 2
MaxN == 2
MaxNnz == 2
MaxVal == 2
MaxRho == 2
MaxCgRate == 2
MaxRhs == 1
MaxIter == 2
MaxElapsed == 1
MaxTotalTime == 3
MaxThreads == 2

(***************************************************************************)
(* 1 / CG_BEST_TOL, the floor tolerance being 1e-7.                        *)
(***************************************************************************)
CG_BEST_TOL_INV == 10000000

\* a null pointer to an array (every array the model tests for null has cells)
NULL == <<>>

(***************************************************************************)
(* pfloat arithmetic.  A value whose numerator or denominator leaves the   *)
(* integers of the model checker is kept as Huge; Huge is absorbing,       *)
(* and a solve that meets it is outside the model (see Representable).     *)
(***************************************************************************)
Abs(k) == IF k < 0 THEN -k ELSE k

Sign(k) == IF k < 0 THEN -1 ELSE IF k > 0 THEN 1 ELSE 0

RECURSIVE Gcd(_, _)
Gcd(a, b) == IF b = 0 THEN a ELSE Gcd(b, a % b)

\* The fraction n/d in lowest terms; a zero denominator keeps only the sign.
Frac(n, d) ==
    IF d = 0 THEN <<Sign(n), 0>>
    ELSE LET g == Gcd(Abs(n), Abs(d))
         IN  IF d < 0 THEN <<(-n) \div g, (-d) \div g>> ELSE <<n \div g, d \div g>>

OfInt(k) == <<k, 1>>

Zero == <<0, 1>>

One == <<1, 1>>

NaN == <<0, 0>>

Huge == <<0, -1>>

IsNaN(a) == a[1] = 0 /\ a[2] = 0

IsHuge(a) == a[2] < 0

IsFinite(a) == a[2] > 0

\* whether x * y and x + y stay inside the model checker's integers
MulFits(x, y) == x = 0 \/ y = 0 \/ Abs(x) <= 2147483647 \div Abs(y)

AddFits(x, y) == Abs(x) <= 2147483647 - Abs(y)

\* a + b over the least common denominator; Inf + -Inf is NaN
Add(a, b) ==
    IF IsHuge(a) \/ IsHuge(b) THEN Huge
    ELSE IF a[2] = 0 /\ b[2] = 0 THEN (IF a[1] = b[1] THEN a ELSE NaN)
    ELSE IF a[2] = 0 THEN a
    ELSE IF b[2] = 0 THEN b
    ELSE LET g  == Gcd(a[2], b[2])
             bq == b[2] \div g
             aq == a[2] \div g
         IN  IF /\ MulFits(a[1], bq) /\ MulFits(b[1], aq) /\ MulFits(aq, b[2])
                /\ AddFits(a[1] * bq, b[1] * aq)
             THEN Frac(a[1] * bq + b[1] * aq, aq * b[2])
             ELSE Huge

\* a * b, the common factors taken out before the products; 0 * Inf is NaN
Mul(a, b) ==
    IF IsHuge(a) \/ IsHuge(b) THEN Huge
    ELSE IF a[2] = 0 \/ b[2] = 0 THEN <<Sign(a[1]) * Sign(b[1]), 0>>
    ELSE IF a[1] = 0 \/ b[1] = 0 THEN Zero
    ELSE LET g1 == Gcd(Abs(a[1]), b[2])
             g2 == Gcd(Abs(b[1]), a[2])
         IN  IF /\ MulFits(a[1] \div g1, b[1] \div g2)
                /\ MulFits(a[2] \div g2, b[2] \div g1)
             THEN <<(a[1] \div g1) * (b[1] \div g2), (a[2] \div g2) * (b[2] \div g1)>>
             ELSE Huge

Neg(a) == <<-a[1], a[2]>>

\* 1 / a: 1/0 is +Inf, 1/Inf is 0, 1/NaN is NaN.
Inv(a) ==
    IF IsHuge(a) THEN Huge
    ELSE IF a[2] = 0 THEN (IF a[1] = 0 THEN NaN ELSE Zero)
    ELSE IF a[1] = 0 THEN <<1, 0>>
    ELSE Frac(a[2], a[1])

Div(a, b) == Mul(a, Inv(b))

\* a1/a2 < b1/b2 for positive denominators, by the integer parts and then the
\* reciprocals of the remainders (no product is formed)
RECURSIVE FracLess(_, _, _, _)
FracLess(a1, a2, b1, b2) ==
    IF a1 \div a2 # b1 \div b2 THEN a1 \div a2 < b1 \div b2
    ELSE IF b1 % b2 = 0 THEN FALSE
    ELSE IF a1 % a2 = 0 THEN TRUE
    ELSE FracLess(b2, b1 % b2, a2, a1 % a2)

\* a < b as the C comparison: false when either side is NaN.
Less(a, b) ==
    IF IsNaN(a) \/ IsNaN(b) \/ IsHuge(a) \/ IsHuge(b) THEN FALSE
    ELSE IF a[2] = 0 \/ b[2] = 0
         THEN (IF a[2] = 0 /\ b[2] = 0 THEN a[1] < b[1]
               ELSE IF a[2] = 0 THEN a[1] < 0 ELSE b[1] > 0)
    ELSE FracLess(a[1], a[2], b[1], b[2])

Leq(a, b) ==
    IF IsNaN(a) \/ IsNaN(b) \/ IsHuge(a) \/ IsHuge(b) THEN FALSE
    ELSE a = b \/ Less(a, b)

RECURSIVE IntPow(_, _)
IntPow(base, e) == IF e = 0 THEN 1 ELSE base * IntPow(base, e - 1)

(***************************************************************************)
(* Arrays and the linAlg primitives.                                       *)
(***************************************************************************)
\* an array given cell by cell, held as an explicit table of its cells
Array(f) == f @@ <<>>

\* a local variable: body(x) for x the value of v, computed once
Bind(v, body(_)) == CHOOSE y \in {body(x) : x \in {v}} : TRUE

Zeros(len) == Array([k \in 0 .. len - 1 |-> Zero])

\* memcpy / memset on the first n cells of a buffer
CopyInto(dst, src, n) ==
    Array([k \in DOMAIN dst |-> IF k < n THEN src[k] ELSE dst[k]])

ZeroFirst(dst, n) == Array([k \in DOMAIN dst |-> IF k < n THEN Zero ELSE dst[k]])

\* the sub-array &(b[off]) of length len
Block(b, off, len) == Array([k \in 0 .. len - 1 |-> b[off + k]])

\* the buffer b with the cells off .. off+len-1 replaced by blk
WithBlock(b, off, len, blk) ==
    Array([k \in DOMAIN b |-> IF k >= off /\ k < off + len THEN blk[k - off] ELSE b[k]])

\* a[i] += sc * b[i] for i < n
addScaledArray(a, b, n, sc) ==
    Array([k \in DOMAIN a |-> IF k < n THEN Add(a[k], Mul(sc, b[k])) ELSE a[k]])

\* a[i] *= sc for i < n
scaleArray(a, sc, n) ==
    Array([k \in DOMAIN a |-> IF k < n THEN Mul(a[k], sc) ELSE a[k]])

RECURSIVE innerProdFrom(_, _, _, _)
innerProdFrom(x, y, k, n) ==
    IF k >= n THEN Zero ELSE Add(Mul(x[k], y[k]), innerProdFrom(x, y, k + 1, n))

innerProd(x, y, n) == innerProdFrom(x, y, 0, n)

\* calcNormSq(v, len) = sum of squares; calcNorm is its square root, which the
\* model never takes: norms are compared through their squares.
calcNormSq(v, n) == innerProd(v, v, n)


(***************************************************************************)
(* The sparse matrix-vector primitive.                                     *)
(***************************************************************************)
RECURSIVE ColumnSum(_, _, _, _, _, _)
ColumnSum(Ax, Ai, x, q, c2, yj) ==
    IF q >= c2 THEN yj
    ELSE ColumnSum(Ax, Ai, x, q + 1, c2, Add(yj, Mul(Ax[q], x[Ai[q]])))

\* y = y + A'*x for A in column compressed format: y[j] += sum of the column j
_accumByAtrans(n, Ax, Ai, Ap, x, y) ==
    Array([j \in DOMAIN y |->
        IF j < n THEN ColumnSum(Ax, Ai, x, Ap[j], Ap[j + 1], y[j]) ELSE y[j]])

accumByAtrans(d, p, x, y) == _accumByAtrans(d.n, d.A.x, d.A.i, d.A.p, x, y)

accumByA(d, p, x, y) == _accumByAtrans(d.m, p.Atx, p.Ati, p.Atp, x, y)

\* y = (RHO_X * I + A'A) x
matVec(d, p, x) ==
    Bind(accumByA(d, p, x, Zeros(d.m)), LAMBDA tmp :
    Bind(accumByAtrans(d, p, tmp, Zeros(d.n)), LAMBDA y :
        addScaledArray(y, x, d.n, d.RHO_X)))

(***************************************************************************)
(* transpose: counting sort of the stored entries by row.                  *)
(***************************************************************************)
\* for (i = 0; i < Ap[n]; i++) z[Ai[i]]++, from entry k on
RECURSIVE CountRows(_, _, _, _)
CountRows(Ai, k, nnz, z) ==
    IF k >= nnz THEN z
    ELSE CountRows(Ai, k + 1, nnz, [z EXCEPT ![Ai[k]] = @ + 1])

RECURSIVE SumBelow(_, _)
SumBelow(c, k) == IF k = 0 THEN 0 ELSE c[k - 1] + SumBelow(c, k - 1)

\* cs_cumsum(p, c, n): p[0 .. n] becomes the exclusive prefix sums of c[0 .. n-1]
\* and c a copy of p[0 .. n-1], the per-row write cursors
cs_cumsum(c, n) ==
    [p |-> Array([k \in 0 .. n |-> SumBelow(c, k)]),
     c |-> Array([k \in 0 .. n - 1 |-> SumBelow(c, k)])]

\* One execution of Ci[q = z[Ai[i]]++] = j; Cx[q] = Ax[i] on the arrays
\* t = [z, Ci, Cx].
ScatterEntry(A, t, i, j) ==
    LET q == t.z[A.i[i]]
    IN  [z  |-> [t.z EXCEPT ![A.i[i]] = q + 1],
         Ci |-> [t.Ci EXCEPT ![q] = j],
         Cx |-> [t.Cx EXCEPT ![q] = A.x[i]]]

\* for (i = c1; i < c2; i++) of column j, from entry i on
RECURSIVE ScatterColumn(_, _, _, _, _)
ScatterColumn(A, t, i, c2, j) ==
    IF i >= c2 THEN t
    ELSE ScatterColumn(A, ScatterEntry(A, t, i, j), i + 1, c2, j)

\* for (j = 0; j < n; j++), from column j on, the columns in order
RECURSIVE ScatterLoop(_, _, _, _)
ScatterLoop(A, t, j, n) ==
    IF j >= n THEN t
    ELSE ScatterLoop(A, ScatterColumn(A, t, A.p[j], A.p[j + 1], j), j + 1, n)

\* transpose(d, p) run by one thread on the freshly allocated Ati, Atx (whose
\* cells hold Ci0, Cx0): the arrays Atp, Ati, Atx it leaves.
transpose(d, Ci0, Cx0) ==
    Bind(CountRows(d.A.i, 0, d.A.p[d.n], Array([k \in 0 .. d.m - 1 |-> 0])), LAMBDA counts :
    Bind(cs_cumsum(counts, d.m), LAMBDA cum :
    Bind(ScatterLoop(d.A, [z |-> cum.c, Ci |-> Ci0, Cx |-> Cx0], 0, d.n), LAMBDA t :
        [Atp |-> cum.p, Ati |-> t.Ci, Atx |-> t.Cx])))

(***************************************************************************)
(* getPreconditioner: M = inv(diag(RHO_X * I + A'A))                       *)
(***************************************************************************)
getPreconditioner(d) ==
    Array([i \in 0 .. d.n - 1 |->
        Div(One, Add(d.RHO_X,
                     calcNormSq(Block(d.A.x, d.A.p[i], d.A.p[i + 1] - d.A.p[i]),
                                d.A.p[i + 1] - d.A.p[i])))])

(***************************************************************************)
(* pcg                                                                     *)
(***************************************************************************)
\* z[i] = r[i] * M[i], ipzr = sum of z[i] * r[i]
applyPreConditioner(M, r, n) ==
    Bind(Array([i \in 0 .. n - 1 |-> Mul(r[i], M[i])]), LAMBDA z :
        [z |-> z, ipzr |-> innerProd(z, r, n)])

\* A tolerance is kept by its square, as sq * CG_BEST_TOL^(2*e) with e in {0, 1}.
FloorTol == [sq |-> One, e |-> 1]

\* calcNorm(r, n) < tol, on the squares: normSq / sq < CG_BEST_TOL^(2*e)
NormBelow(normSq, tol) ==
    LET quot == Div(normSq, tol.sq)
    IN  IF tol.e = 0 THEN quot[1] < quot[2]
        ELSE quot[1] <= ((quot[2] - 1) \div CG_BEST_TOL_INV) \div CG_BEST_TOL_INV

\* The loop of pcg from iteration i on; st = [b, r, p, ipzr].  A residual norm
\* outside the model's arithmetic ends the evaluation with the count -1.
RECURSIVE pcgLoop(_, _, _, _, _, _)
pcgLoop(d, pr, st, i, max_its, tol) ==
    IF i >= max_its THEN [its |-> i, b |-> st.b]
    ELSE Bind(matVec(d, pr, st.p), LAMBDA Ap :
         Bind(Div(st.ipzr, innerProd(st.p, Ap, d.n)), LAMBDA alpha :
         Bind(addScaledArray(st.b, st.p, d.n, alpha), LAMBDA b1 :
         Bind(addScaledArray(st.r, Ap, d.n, Neg(alpha)), LAMBDA r1 :
         Bind(calcNormSq(r1, d.n), LAMBDA normSq :
             IF IsHuge(Div(normSq, tol.sq))
             THEN [its |-> -1, b |-> b1]
             ELSE IF NormBelow(normSq, tol)
             THEN [its |-> i + 1, b |-> b1]
             ELSE Bind(applyPreConditioner(pr.M, r1, d.n), LAMBDA pc :
                  Bind(scaleArray(st.p, Div(pc.ipzr, st.ipzr), d.n), LAMBDA scaled :
                  Bind([b |-> b1, r |-> r1, p |-> addScaledArray(scaled, pc.z, d.n, One),
                        ipzr |-> pc.ipzr], LAMBDA st1 :
                      pcgLoop(d, pr, st1, i + 1, max_its, tol)))))))))

\* pcg(d, pr, s, b, max_its, tol): the count it returns and the buffer b it leaves
pcg(d, pr, s, b, max_its, tol) ==
    Bind(IF s = NULL THEN Block(b, 0, d.n)
         ELSE Bind(matVec(d, pr, s), LAMBDA r :
                  scaleArray(addScaledArray(r, b, d.n, Neg(One)), Neg(One), d.n)),
         LAMBDA r0 :
    Bind(applyPreConditioner(pr.M, r0, d.n), LAMBDA pc :
    Bind([b |-> IF s = NULL THEN ZeroFirst(b, d.n) ELSE CopyInto(b, s, d.n),
          r |-> r0, p |-> pc.z, ipzr |-> pc.ipzr], LAMBDA st :
        pcgLoop(d, pr, st, 0, max_its, tol))))

(***************************************************************************)
(* solveLinSys                                                             *)
(***************************************************************************)
\* MAX(cgTol, CG_BEST_TOL) for cgTol = sqrt(sq) * CG_BEST_TOL^e
MaxWithFloor(sq, e) ==
    IF IsHuge(sq) THEN [sq |-> Huge, e |-> e]
    ELSE IF IsNaN(sq) THEN FloorTol
    ELSE IF e = 1 THEN (IF Less(One, sq) THEN [sq |-> sq, e |-> 1] ELSE FloorTol)
    ELSE IF IsFinite(sq)
            /\ sq[1] <= (sq[2] \div CG_BEST_TOL_INV) \div CG_BEST_TOL_INV
         THEN FloorTol
         ELSE [sq |-> sq, e |-> 0]

\* cgTolOf taking the floor itself for a negative index, the norm left out
cgTolOfFloorOnly(d, b, iter) ==
    IF iter < 0
    THEN FloorTol
    ELSE MaxWithFloor(Mul(calcNormSq(b, d.n),
                          Frac(1, IntPow(iter + 1, 2 * d.CG_RATE))), 0)

\* cgTolOf multiplying by POWF(iter + 1, CG_RATE) where the code divides
cgTolOfGrowing(d, b, iter) ==
    IF iter < 0
    THEN MaxWithFloor(calcNormSq(b, d.n), 1)
    ELSE MaxWithFloor(Mul(calcNormSq(b, d.n),
                          OfInt(IntPow(iter + 1, 2 * d.CG_RATE))), 0)

\* cgTol = MAX(calcNorm(b, n) * (iter < 0 ? CG_BEST_TOL : 1 / POWF(iter + 1, CG_RATE)),
\*             CG_BEST_TOL)
cgTolOf(d, b, iter) ==
    IF iter < 0
    THEN MaxWithFloor(calcNormSq(b, d.n), 1)
    ELSE MaxWithFloor(Mul(calcNormSq(b, d.n),
                          Frac(1, IntPow(iter + 1, 2 * d.CG_RATE))), 0)

\* solveBuffer without scaleArray(&(b[d->n]), -1, d->m)
solveBufferNoNegate(d, p, b, s, iter) ==
    Bind(cgTolOf(d, b, iter), LAMBDA cgTol :
    Bind(accumByAtrans(d, p, Block(b, d.n, d.m), b), LAMBDA folded :
    Bind(pcg(d, p, s, folded, d.n, cgTol), LAMBDA res :
    Bind(accumByA(d, p, Block(res.b, 0, d.n), Block(res.b, d.n, d.m)), LAMBDA back :
        [cgTol |-> cgTol, cgIts |-> res.its, b |-> WithBlock(res.b, d.n, d.m, back)]))))

\* The body of solveLinSys on the buffer b: the tolerance, the count pcg
\* returned and the buffer on return.
solveBuffer(d, p, b, s, iter) ==
    Bind(cgTolOf(d, b, iter), LAMBDA cgTol :
    Bind(accumByAtrans(d, p, Block(b, d.n, d.m), b), LAMBDA folded :
    Bind(pcg(d, p, s, folded, d.n, cgTol), LAMBDA res :
    Bind(scaleArray(Block(res.b, d.n, d.m), Neg(One), d.m), LAMBDA neg :
    Bind(accumByA(d, p, Block(res.b, 0, d.n), neg), LAMBDA back :
        [cgTol |-> cgTol, cgIts |-> res.its, b |-> WithBlock(res.b, d.n, d.m, back)])))))

(***************************************************************************)
(* The inputs: the problem data d (Data: m, n, A in column compressed      *)
(* form, RHO_X, CG_RATE), the combined right-hand side b0 the caller loads *)
(* into the work buffer before every solve and its warm start s.           *)
(***************************************************************************)
ColPtrs(n, nnz) ==
    {f \in [0 .. n -> 0 .. nnz] :
        f[0] = 0 /\ f[n] = nnz /\ \A j \in 0 .. n - 1 : f[j] <= f[j + 1]}

Vals == {OfInt(v) : v \in 1 .. MaxVal}

\* the row indices of the k entries under the column pointers cp: in range and,
\* inside a column, distinct and in any order
RowIdxs(m, n, k, cp) ==
    {ai \in [0 .. k - 1 -> 0 .. m - 1] :
        \A j \in 0 .. n - 1 : \A q1, q2 \in cp[j] .. cp[j + 1] - 1 :
            q1 # q2 => ai[q1] # ai[q2]}

MatrixSet(m, n, k) ==
    UNION {{[p |-> cp, i |-> ai, x |-> ax] :
                ai \in RowIdxs(m, n, k, cp), ax \in [0 .. k - 1 -> Vals]} :
           cp \in ColPtrs(n, k)}

DataSetOf(rhos, rates) ==
    UNION {{[m |-> m, n |-> n, A |-> A, RHO_X |-> OfInt(rho), CG_RATE |-> rate] :
                A \in MatrixSet(m, n, k), rho \in rhos, rate \in rates} :
           m \in 0 .. MaxM, n \in 1 .. MaxN, k \in 0 .. MaxNnz}

DataSet == DataSetOf(1 .. MaxRho, 1 .. MaxCgRate)

RhsVals == {OfInt(v) : v \in 0 .. MaxRhs}

Handles == {"X", "Y"}

\* what malloc may leave in the cells of a fresh array
Garbage == {0, 1}

VARIABLES
    d,              \* Data * d
    b0,             \* the right-hand side [b1; b2] the caller solves for
    s,              \* the caller's warm start, or NULL
    p,              \* p[h]: the Priv the caller holds as h, or NULL
    heap,           \* heap[h][site]: the allocation made at site for handle h
    ret,            \* ret[h]: how the last initPriv for h ended
    nullAccess,     \* nullAccess[h]: the failed allocations initPriv went through
    totCgIts,       \* static idxint totCgIts
    totalSolveTime, \* static pfloat totalSolveTime, in timer ticks
    call,           \* the last call: its name, handle, arguments and results
    since,          \* history: iterations and time of the solves since the last reset
    omp,            \* whether the build defines OPENMP
    tpc,            \* where the stepwise transpose stands
    z,              \* transpose: the cursor array z
    Cp,             \* transpose: p->Atp
    Ci,             \* transpose: p->Ati
    Cx,             \* transpose: p->Atx
    wk,             \* transpose: wk[w], the loop state of thread w
    slot            \* history: slot[i], the output slot q taken for entry i of A

solverVars == <<p, heap, ret, nullAccess, totCgIts, totalSolveTime, call, since>>

transVars == <<omp, tpc, z, Cp, Ci, Cx, wk, slot>>

vars == <<d, b0, s, solverVars, transVars>>

(***************************************************************************)
(* initPriv and freePriv                                                   *)
(***************************************************************************)
\* the allocations of initPriv, in program order; "cursor" is the array z of
\* transpose
AllocSites == <<"priv", "p", "r", "Ap", "tmp", "z", "M", "Ati", "Atp", "Atx", "cursor">>

PrivFields == {"p", "r", "Ap", "tmp", "z", "M", "Ati", "Atp", "Atx"}

\* the fields the test before the return looks at
CheckedFields == {"p", "r", "Ap", "tmp", "Ati", "Atp", "Atx"}

SiteSet == {AllocSites[k] : k \in DOMAIN AllocSites}

\* The arrays initPriv dereferences, in the order it first does: z, Ci and Cx
\* in the loops of transpose (when A stores an entry), M in getPreconditioner.
\* A null handle is dereferenced by the first store into it.
DerefOrder(dd, F) ==
    IF "priv" \in F THEN <<"priv">>
    ELSE SelectSeq(<<"cursor", "Ati", "Atx", "M">>,
                   LAMBDA a : a \in F /\ (a = "M" \/ dd.A.p[dd.n] > 0))

\* where the process may die: at a null pointer it goes through, or nowhere when
\* every such access is survived; a store through a null handle ends it
CrashSites(dd, F) ==
    IF "priv" \in F THEN {"priv"}
    ELSE {"none"} \cup {DerefOrder(dd, F)[k] : k \in DOMAIN DerefOrder(dd, F)}

NullPriv ==
    [p |-> NULL, r |-> NULL, Ap |-> NULL, tmp |-> NULL, z |-> NULL, M |-> NULL,
     Ati |-> NULL, Atp |-> NULL, Atx |-> NULL]

NoHeap == [a \in SiteSet |-> "none"]

\* the Priv initPriv has built when it reaches its test, the allocations in F
\* having failed and fresh cells holding g
BuiltPriv(dd, F, g) ==
    LET nnz == dd.A.p[dd.n]
        Ci0 == Array([k \in 0 .. nnz - 1 |-> g])
        Cx0 == Array([k \in 0 .. nnz - 1 |-> OfInt(g)])
        t   == IF "cursor" \in F
               THEN [Atp |-> Array([k \in 0 .. dd.m |-> g]), Ati |-> Ci0, Atx |-> Cx0]
               ELSE transpose(dd, Ci0, Cx0)
        buf(a) == IF a \in F THEN NULL ELSE <<a>>
    IN  [p |-> buf("p"), r |-> buf("r"), Ap |-> buf("Ap"), tmp |-> buf("tmp"),
         z |-> buf("z"),
         M   |-> IF "M" \in F THEN NULL ELSE getPreconditioner(dd),
         Ati |-> IF "Ati" \in F THEN NULL ELSE t.Ati,
         Atp |-> IF "Atp" \in F THEN NULL ELSE t.Atp,
         Atx |-> IF "Atx" \in F THEN NULL ELSE t.Atx]

\* freePriv(p): every field that is not null is freed, then the handle
freePrivHeap(hp) ==
    [a \in SiteSet |-> IF a \in PrivFields \cup {"priv"} /\ hp[a] = "live"
                       THEN "freed" ELSE hp[a]]

\* initPriv(d) with the allocations in F failing (returning NULL). An access
\* through a null pointer is undefined: the process dies at it (crashAt names
\* the array) or the access is lost and initPriv goes on (crashAt = "none").
\* The result: how the call ended, the heap, the Priv handed back, the null
\* pointers gone through and whether the counters were reset.
initPrivResult(dd, F, g, crashAt) ==
    LET order   == DerefOrder(dd, F)
        seen    == IF crashAt = "none" THEN {order[k] : k \in DOMAIN order}
                   ELSE {order[k] : k \in {j \in DOMAIN order :
                            \A i \in 1 .. j - 1 : order[i] # crashAt}}
        alloc   == [a \in SiteSet |-> IF a \in F THEN "failed" ELSE "live"]
        fail    == F \cap CheckedFields # {}
        atCheck == [alloc EXCEPT !["cursor"] = IF @ = "live" THEN "freed" ELSE @]
    IN  IF crashAt = "priv"
        THEN [ret |-> "crashed", priv |-> NullPriv, nullAccess |-> seen, reset |-> FALSE,
              heap |-> [a \in SiteSet |-> IF a = "priv" THEN "failed"
                                          ELSE IF a = "p" THEN alloc[a] ELSE "none"]]
        ELSE IF crashAt # "none"
        THEN [ret |-> "crashed", priv |-> NullPriv, nullAccess |-> seen, reset |-> FALSE,
              heap |-> IF crashAt = "M" THEN atCheck ELSE alloc]
        ELSE IF fail
        THEN [ret |-> "NULL", priv |-> NullPriv, nullAccess |-> seen, reset |-> TRUE,
              heap |-> freePrivHeap(atCheck)]
        ELSE [ret |-> "handle", priv |-> BuiltPriv(dd, F, g), nullAccess |-> seen,
              reset |-> TRUE, heap |-> atCheck]

\* the process has not died
Alive == \A h \in Handles : ret[h] # "crashed"

\* h is a handle initPriv returned with every buffer allocated
Usable(h) == ret[h] = "handle" /\ \A a \in PrivFields : heap[h][a] = "live"

NoSince == [its |-> 0, time |-> 0, skipped |-> FALSE]

\* the caller asks for a handle it does not hold, and gives up after a failure
InitPriv(h, F, g, crashAt) ==
    /\ Alive
    /\ ret[h] = "none"
    /\ crashAt \in CrashSites(d, F)
    /\ \E res \in {initPrivResult(d, F, g, crashAt)} :
           /\ p' = [p EXCEPT ![h] = res.priv]
           /\ heap' = [heap EXCEPT ![h] = res.heap]
           /\ ret' = [ret EXCEPT ![h] = res.ret]
           /\ nullAccess' = [nullAccess EXCEPT ![h] = res.nullAccess]
           /\ totalSolveTime' = IF res.reset THEN 0 ELSE totalSolveTime
           /\ totCgIts' = IF res.reset THEN 0 ELSE totCgIts
           /\ since' = IF res.reset THEN NoSince ELSE since
    /\ call' = [name |-> "initPriv", h |-> h]
    /\ UNCHANGED <<d, b0, s, transVars>>

FreePriv(h) ==
    /\ Alive
    /\ ret[h] = "handle"
    /\ p' = [p EXCEPT ![h] = NullPriv]
    /\ heap' = [heap EXCEPT ![h] = freePrivHeap(@)]
    /\ ret' = [ret EXCEPT ![h] = "none"]
    /\ call' = [name |-> "freePriv", h |-> h]
    /\ UNCHANGED <<d, b0, s, nullAccess, totCgIts, totalSolveTime, since, transVars>>

(***************************************************************************)
(* solveLinSys and getLinSysSummary as the caller's steps.  The caller     *)
(* loads b0 into its work buffer before the call; call.b is the buffer on  *)
(* return.  The timer is read as a number of ticks.                        *)
(***************************************************************************)
\* the solve stayed inside the model's arithmetic
Representable(res) ==
    /\ res.cgIts >= 0
    /\ ~IsHuge(res.cgTol.sq)
    /\ \A k \in DOMAIN res.b : ~IsHuge(res.b[k])

\* if (iter >= 0) totCgIts += cgIts, without the test
countCgItsAlways(tot, iter, cgIts) == tot + cgIts

\* if (iter >= 0) totCgIts += cgIts
countCgIts(tot, iter, cgIts) == IF iter >= 0 THEN tot + cgIts ELSE tot

SolveLinSys(h, iter, elapsed) ==
    /\ Alive
    /\ Usable(h)
    /\ totalSolveTime + elapsed <= MaxTotalTime
    /\ \E res \in {solveBuffer(d, p[h], b0, s, iter)} :
           /\ Representable(res)
           /\ totCgIts' = countCgIts(totCgIts, iter, res.cgIts)
           /\ call' = [name |-> "solveLinSys", h |-> h, iter |-> iter,
                       cgTol |-> res.cgTol, cgIts |-> res.cgIts, b |-> res.b]
           /\ since' = [its |-> since.its + (IF iter >= 0 THEN res.cgIts ELSE 0),
                        time |-> since.time + elapsed,
                        skipped |-> since.skipped \/ (iter < 0 /\ res.cgIts > 0)]
    /\ totalSolveTime' = totalSolveTime + elapsed
    /\ UNCHANGED <<d, b0, s, p, heap, ret, nullAccess, transVars>>

\* the averages sprintf prints: totCgIts / (info->iter + 1) and
\* totalSolveTime / (info->iter + 1) / 1e3
GetLinSysSummary(h, infoIter) ==
    /\ Alive
    /\ ret[h] = "handle"
    /\ call' = [name |-> "getLinSysSummary", h |-> h, iter |-> infoIter,
                   avgIts |-> Div(OfInt(totCgIts), OfInt(infoIter + 1)),
                   avgTime |-> Div(Div(OfInt(totalSolveTime), OfInt(infoIter + 1)),
                                   OfInt(1000)),
                   its |-> since.its, time |-> since.time, skipped |-> since.skipped]
    /\ totCgIts' = 0
    /\ totalSolveTime' = 0
    /\ since' = NoSince
    /\ UNCHANGED <<d, b0, s, p, heap, ret, nullAccess, transVars>>

\* the transpose variables when no stepwise transpose is followed
TransIdle ==
    /\ omp = FALSE
    /\ tpc = [phase |-> "idle", todo |-> {}, g |-> 0]
    /\ z = <<>>
    /\ Cp = <<>>
    /\ Ci = <<>>
    /\ Cx = <<>>
    /\ wk = <<>>
    /\ slot = <<>>

RhsSet(dd) == [0 .. dd.n + dd.m - 1 -> RhsVals]

WarmSet(dd) == {NULL} \cup [0 .. dd.n - 1 -> RhsVals]

\* the state at program start with the inputs from the given sets: no handle,
\* the file-scope counters zero
InitWith(data) ==
    /\ d \in data
    /\ b0 \in RhsSet(d)
    /\ s \in WarmSet(d)
    /\ p = [h \in Handles |-> NullPriv]
    /\ heap = [h \in Handles |-> NoHeap]
    /\ ret = [h \in Handles |-> "none"]
    /\ nullAccess = [h \in Handles |-> {}]
    /\ totCgIts = 0
    /\ totalSolveTime = 0
    /\ call = [name |-> "none"]
    /\ since = NoSince
    /\ TransIdle

(***************************************************************************)
(* SpecSolve: one handle, every input of the bounds, a solve of every      *)
(* outer-iteration index.  The timer reads MaxTotalTime, so that a run     *)
(* follows one solve of each input.                                        *)
(***************************************************************************)
InitSolve == InitWith(DataSet)

NextSolve ==
    \/ \E g \in Garbage : InitPriv("X", {}, g, "none")
    \/ \E iter \in -1 .. MaxIter : SolveLinSys("X", iter, MaxTotalTime)

SpecSolve == InitSolve /\ [][NextSolve]_vars

(***************************************************************************)
(* Spec: two handles on one problem, with solves, summaries and teardown   *)
(* in any order, on the problems of full size with b2 = 0 and no warm      *)
(* start.                                                                  *)
(***************************************************************************)
FullSizeData ==
    {dd \in DataSetOf({1}, {MaxCgRate}) :
        /\ dd.m = MaxM /\ dd.n = MaxN /\ dd.A.p[dd.n] = MaxNnz
        /\ \A q \in DOMAIN dd.A.x : dd.A.x[q] = OfInt(MaxVal)}

Init ==
    /\ InitWith(FullSizeData)
    /\ s = NULL
    /\ \A i \in 0 .. d.m - 1 : b0[d.n + i] = Zero

Next ==
    \/ \E h \in Handles, g \in Garbage : InitPriv(h, {}, g, "none")
    \/ \E h \in Handles, iter \in -1 .. MaxIter, e \in 1 .. MaxElapsed :
           SolveLinSys(h, iter, e)
    \/ \E h \in Handles, infoIter \in 0 .. MaxIter : GetLinSysSummary(h, infoIter)
    \/ \E h \in Handles : FreePriv(h)

Spec == Init /\ [][Next]_vars


(***************************************************************************)
(* transpose step by step.  Without OPENMP one thread runs the scatter     *)
(* loop over the columns in order; with OPENMP the columns are shared out  *)
(* to the threads of the team, each with its own i, c1, c2, q, all of them *)
(* on the same z, Ci, Cx.  The statement Ci[q = z[Ai[i]]++] = j;           *)
(* Cx[q] = Ax[i] is a load of z, a store to z and two stores, and another  *)
(* thread may run between any two of them.                                 *)
(***************************************************************************)
Threads == IF omp THEN 1 .. MaxThreads ELSE {1}

IdleWorker == [pc |-> "idle", j |-> 0, i |-> 0, c2 |-> 0, q |-> 0]

Min(S) == CHOOSE x \in S : \A y \in S : x <= y

\* allocation of z, the counting loop and cs_cumsum; Ci and Cx are the fresh
\* arrays of initPriv, holding g
TransposeBegin(g) ==
    /\ tpc.phase = "start"
    /\ \E cum \in {cs_cumsum(CountRows(d.A.i, 0, d.A.p[d.n],
                                       Array([k \in 0 .. d.m - 1 |-> 0])), d.m)} :
           /\ Cp' = cum.p
           /\ z' = cum.c
    /\ Ci' = Array([k \in 0 .. d.A.p[d.n] - 1 |-> g])
    /\ Cx' = Array([k \in 0 .. d.A.p[d.n] - 1 |-> OfInt(g)])
    /\ wk' = [w \in Threads |-> IdleWorker]
    /\ slot' = Array([k \in 0 .. d.A.p[d.n] - 1 |-> -1])
    /\ tpc' = [phase |-> "scatter", todo |-> 0 .. d.n - 1, g |-> g]
    /\ UNCHANGED <<d, b0, s, solverVars, omp>>

\* thread w starts on column j: c1 = Ap[j]; c2 = Ap[j + 1]; i = c1
TakeColumn(w, j) ==
    /\ tpc.phase = "scatter"
    /\ wk[w].pc = "idle"
    /\ j \in tpc.todo
    /\ omp \/ j = Min(tpc.todo)
    /\ tpc' = [tpc EXCEPT !.todo = @ \ {j}]
    /\ wk' = [wk EXCEPT ![w] =
                 IF d.A.p[j] < d.A.p[j + 1]
                 THEN [pc |-> "read", j |-> j, i |-> d.A.p[j], c2 |-> d.A.p[j + 1], q |-> 0]
                 ELSE IdleWorker]
    /\ UNCHANGED <<d, b0, s, solverVars, omp, z, Cp, Ci, Cx, slot>>

\* q = z[Ai[i]]
ScatterRead(w) ==
    /\ tpc.phase = "scatter"
    /\ wk[w].pc = "read"
    /\ wk' = [wk EXCEPT ![w].pc = "incr", ![w].q = z[d.A.i[wk[w].i]]]
    /\ slot' = [slot EXCEPT ![wk[w].i] = z[d.A.i[wk[w].i]]]
    /\ UNCHANGED <<d, b0, s, solverVars, omp, tpc, z, Cp, Ci, Cx>>

\* ScatterIncr storing q back: the cursor of the row does not advance
ScatterIncrLost(w) ==
    /\ tpc.phase = "scatter"
    /\ wk[w].pc = "incr"
    /\ z' = [z EXCEPT ![d.A.i[wk[w].i]] = wk[w].q]
    /\ wk' = [wk EXCEPT ![w].pc = "storeI"]
    /\ UNCHANGED <<d, b0, s, solverVars, omp, tpc, Cp, Ci, Cx, slot>>

\* z[Ai[i]] = q + 1
ScatterIncr(w) ==
    /\ tpc.phase = "scatter"
    /\ wk[w].pc = "incr"
    /\ z' = [z EXCEPT ![d.A.i[wk[w].i]] = wk[w].q + 1]
    /\ wk' = [wk EXCEPT ![w].pc = "storeI"]
    /\ UNCHANGED <<d, b0, s, solverVars, omp, tpc, Cp, Ci, Cx, slot>>

\* Ci[q] = j
ScatterStoreI(w) ==
    /\ tpc.phase = "scatter"
    /\ wk[w].pc = "storeI"
    /\ Ci' = [Ci EXCEPT ![wk[w].q] = wk[w].j]
    /\ wk' = [wk EXCEPT ![w].pc = "storeX"]
    /\ UNCHANGED <<d, b0, s, solverVars, omp, tpc, z, Cp, Cx, slot>>

\* Cx[q] = Ax[i]; i++
ScatterStoreX(w) ==
    /\ tpc.phase = "scatter"
    /\ wk[w].pc = "storeX"
    /\ Cx' = [Cx EXCEPT ![wk[w].q] = d.A.x[wk[w].i]]
    /\ wk' = [wk EXCEPT ![w] = IF wk[w].i + 1 < wk[w].c2
                               THEN [@ EXCEPT !.pc = "read", !.i = @ + 1]
                               ELSE IdleWorker]
    /\ UNCHANGED <<d, b0, s, solverVars, omp, tpc, z, Cp, Ci, slot>>

\* every column done: scs_free(z)
TransposeEnd ==
    /\ tpc.phase = "scatter"
    /\ tpc.todo = {}
    /\ \A w \in Threads : wk[w].pc = "idle"
    /\ tpc' = [tpc EXCEPT !.phase = "done"]
    /\ z' = <<>>
    /\ UNCHANGED <<d, b0, s, solverVars, omp, Cp, Ci, Cx, wk, slot>>

InitTranspose ==
    /\ d \in DataSetOf({1}, {1})
    /\ b0 = Zeros(d.n + d.m)
    /\ s = NULL
    /\ p = [h \in Handles |-> NullPriv]
    /\ heap = [h \in Handles |-> NoHeap]
    /\ ret = [h \in Handles |-> "none"]
    /\ nullAccess = [h \in Handles |-> {}]
    /\ totCgIts = 0
    /\ totalSolveTime = 0
    /\ call = [name |-> "none"]
    /\ since = NoSince
    /\ omp \in BOOLEAN
    /\ tpc = [phase |-> "start", todo |-> {}, g |-> 0]
    /\ z = <<>>
    /\ Cp = <<>>
    /\ Ci = <<>>
    /\ Cx = <<>>
    /\ wk = <<>>
    /\ slot = <<>>

NextTranspose ==
    \/ \E g \in Garbage : TransposeBegin(g)
    \/ \E w \in Threads, j \in 0 .. MaxN - 1 : TakeColumn(w, j)
    \/ \E w \in Threads : ScatterRead(w)
    \/ \E w \in Threads : ScatterIncr(w)
    \/ \E w \in Threads : ScatterStoreI(w)
    \/ \E w \in Threads : ScatterStoreX(w)
    \/ TransposeEnd

SpecTranspose == InitTranspose /\ [][NextTranspose]_vars

(***************************************************************************)
(* SpecAlloc: initPriv under every combination of failing allocations.     *)
(***************************************************************************)
InitAlloc ==
    /\ InitWith(FullSizeData)
    /\ s = NULL
    /\ b0 = Zeros(d.n + d.m)

NextAlloc ==
    \/ /\ ret["X"] = "none"
       /\ \E F \in SUBSET SiteSet, g \in Garbage :
              \E crashAt \in CrashSites(d, F) : InitPriv("X", F, g, crashAt)
    \/ FreePriv("X")

SpecAlloc == InitAlloc /\ [][NextAlloc]_vars


(***************************************************************************)
(* The linear algebra the properties are stated in, on the stored entries  *)
(* of A itself.                                                            *)
(***************************************************************************)
\* the column of the stored entry q
ColOf(dd, q) == CHOOSE j \in 0 .. dd.n - 1 : dd.A.p[j] <= q /\ q < dd.A.p[j + 1]

\* the sum of term[q] over the stored entries q < k in keep
RECURSIVE SumEntries(_, _, _)
SumEntries(k, keep, term) ==
    IF k = 0 THEN Zero
    ELSE IF k - 1 \in keep THEN Add(SumEntries(k - 1, keep, term), term[k - 1])
    ELSE SumEntries(k - 1, keep, term)

\* A * x
TimesA(dd, x) ==
    LET nnz  == dd.A.p[dd.n]
        term == Array([q \in 0 .. nnz - 1 |-> Mul(dd.A.x[q], x[ColOf(dd, q)])])
    IN  Array([i \in 0 .. dd.m - 1 |->
            SumEntries(nnz, {q \in 0 .. nnz - 1 : dd.A.i[q] = i}, term)])

\* A' * y
TimesAT(dd, y) ==
    LET nnz  == dd.A.p[dd.n]
        term == Array([q \in 0 .. nnz - 1 |-> Mul(dd.A.x[q], y[dd.A.i[q]])])
    IN  Array([j \in 0 .. dd.n - 1 |->
            SumEntries(nnz, {q \in 0 .. nnz - 1 : ColOf(dd, q) = j}, term)])

\* (RHO_X * I + A'A) x
Operator(dd, x) ==
    LET AtAx == TimesAT(dd, TimesA(dd, x))
    IN  Array([j \in 0 .. dd.n - 1 |-> Add(Mul(dd.RHO_X, x[j]), AtAx[j])])

\* the right-hand side pcg is handed: b1 + A' * b2 for the blocks of b0
FoldedRhs ==
    LET Atb2 == TimesAT(d, Block(b0, d.n, d.m))
    IN  Array([j \in 0 .. d.n - 1 |-> Add(b0[j], Atb2[j])])

\* the square of norm(Operator(x) - rhs)
ResidualSq(dd, x, rhs) ==
    LET Ox == Operator(dd, x)
        r  == Array([j \in 0 .. dd.n - 1 |-> Add(Ox[j], Neg(rhs[j]))])
    IN  calcNormSq(r, dd.n)

\* norm <= tol, on the squares
NormWithin(normSq, tol) ==
    LET quot == Div(normSq, tol.sq)
    IN  /\ IsFinite(quot)
        /\ IF tol.e = 0 THEN quot[1] <= quot[2]
           ELSE quot[1] <= (quot[2] \div CG_BEST_TOL_INV) \div CG_BEST_TOL_INV

\* t1 <= t2 for two tolerances
TolLeq(t1, t2) ==
    LET quot == Div(t1.sq, t2.sq)
    IN  /\ IsFinite(quot)
        /\ IF t1.e = t2.e THEN quot[1] <= quot[2]
           ELSE IF t1.e = 1
           THEN quot[1] = 0
                \/ ((quot[1] - 1) \div CG_BEST_TOL_INV) \div CG_BEST_TOL_INV < quot[2]
           ELSE quot[1] <= (quot[2] \div CG_BEST_TOL_INV) \div CG_BEST_TOL_INV

Solved == call.name = "solveLinSys"

\* the n-block of the buffer on return
SolvedX == Block(call.b, 0, d.n)

AllFinite(v) == \A k \in DOMAIN v : IsFinite(v[k])

(***************************************************************************)
(* C3                                                                      *)
(***************************************************************************)
\* C3: pcg with budget n returns a count of at most n and leaves an x whose
\* residual norm((RHO_X * I + A'A) x - b) is at most the tolerance it was given,
\* for every matrix, right-hand side and warm start.
PcgConvergesWithinN ==
    Solved => /\ call.cgIts <= d.n
              /\ NormWithin(ResidualSq(d, SolvedX, FoldedRhs), call.cgTol)

(***************************************************************************)
(* C4                                                                      *)
(***************************************************************************)
ExactWarmStart == s # NULL /\ Operator(d, s) = FoldedRhs

\* C4: pcg started from a warm start s that solves the system exactly returns
\* a count of at most 1 and leaves s in the buffer.
ExactWarmStartKept ==
    Solved /\ ExactWarmStart => call.cgIts <= 1 /\ SolvedX = s

FinalSolveUsesFloor == Solved /\ call.iter < 0 => call.cgTol = FloorTol

\* C7 as amended: a solve with a negative index hands pcg the tolerance
\* max(norm(b1), 1) * CG_BEST_TOL, the floor exactly when norm(b1) <= 1.
FinalSolveTolerance ==
    Solved /\ call.iter < 0 =>
        /\ call.cgTol.e = 1
        /\ call.cgTol.sq = IF Less(One, calcNormSq(b0, d.n))
                           THEN calcNormSq(b0, d.n) ELSE One
        /\ TolLeq(FloorTol, call.cgTol)
        /\ (call.cgTol = FloorTol) = Leq(calcNormSq(b0, d.n), One)

FinalSolveToleranceWitness ==
    /\ Solved
    /\ call.iter < 0
    /\ Less(One, calcNormSq(b0, d.n))
    /\ call.cgTol # FloorTol

(***************************************************************************)
(* C8                                                                      *)
(***************************************************************************)
\* C8: for the same b1 and CG_RATE the tolerance of a solve with index
\* iter2 >= 0 is at most the tolerance solveLinSys computes for every index
\* 0 <= iter1 < iter2, and no tolerance is below the floor CG_BEST_TOL.
ToleranceTightens ==
    Solved /\ call.iter >= 0 =>
        /\ TolLeq(FloorTol, call.cgTol)
        /\ \A iter1 \in 0 .. call.iter - 1 :
               /\ TolLeq(call.cgTol, cgTolOf(d, b0, iter1))
               /\ TolLeq(FloorTol, cgTolOf(d, b0, iter1))

ToleranceTightensWitness ==
    /\ Solved
    /\ call.iter = MaxIter
    /\ call.cgTol # FloorTol
    /\ ~TolLeq(cgTolOf(d, b0, MaxIter - 1), call.cgTol)
    /\ ~TolLeq(cgTolOf(d, b0, 0), cgTolOf(d, b0, MaxIter - 1))


(***************************************************************************)
(* C6                                                                      *)
(***************************************************************************)
\* C6: the running iteration total is the sum of the counts of the solves
\* with iter >= 0 made since the last initPriv or summary, the running time
\* total the sum of the times of all solves since then; getLinSysSummary
\* reports the totals divided by info->iter + 1 (the time in thousands of
\* ticks) and leaves both counters zero.
CounterAccounting ==
    /\ totCgIts = since.its
    /\ totalSolveTime = since.time
    /\ call.name = "getLinSysSummary" =>
           /\ Mul(call.avgIts, OfInt(call.iter + 1)) = OfInt(call.its)
           /\ Mul(call.avgTime, OfInt(1000 * (call.iter + 1))) = OfInt(call.time)
           /\ totCgIts = 0
           /\ totalSolveTime = 0

\* a solve of 1 and a solve of 2 iterations and a solve with iter < 0, summarized
\* with info->iter = 1: 1.5 is reported
CounterAccountingWitness ==
    /\ call.name = "getLinSysSummary"
    /\ call.iter = 1
    /\ call.its = 3
    /\ call.time = MaxTotalTime
    /\ call.skipped
    /\ call.avgIts = Frac(3, 2)

(***************************************************************************)
(* C10                                                                     *)
(***************************************************************************)
\* C10: the counters belong to one instance: while the caller holds X, no
\* initPriv, solveLinSys or getLinSysSummary on Y changes the totals X's next
\* summary reports.
CountersPerInstance ==
    [][ret["X"] = "handle" /\ call'.name # "none" /\ call'.h = "Y"
           => totCgIts' = totCgIts /\ totalSolveTime' = totalSolveTime]_vars


(***************************************************************************)
(* C1                                                                      *)
(***************************************************************************)
\* the bag of the values f(q), q in S
BagOf(S, f(_)) == [t \in {f(q) : q \in S} |-> Cardinality({q \in S : f(q) = t})]

\* Atp, Ati, Atx are a column compressed form of the transpose of dd.A: the
\* column pointers start at 0, end at the number of stored entries and do not
\* decrease, and the stored entries (row, column, value) of A are, one to one,
\* the entries (column, row, value) under them.
TransposeOf(dd, Atp, Ati, Atx) ==
    LET nnz == dd.A.p[dd.n]
        OutCol(q) == CHOOSE i \in 0 .. dd.m - 1 : Atp[i] <= q /\ q < Atp[i + 1]
    IN  /\ Atp[0] = 0
        /\ Atp[dd.m] = nnz
        /\ \A i \in 0 .. dd.m - 1 : Atp[i] <= Atp[i + 1]
        /\ BagOf(0 .. nnz - 1, LAMBDA q : <<dd.A.i[q], ColOf(dd, q), dd.A.x[q]>>)
               = BagOf(0 .. nnz - 1, LAMBDA q : <<OutCol(q), Ati[q], Atx[q]>>)

TransposeDone == tpc.phase = "done"

\* C1: when transpose returns, Atp, Ati, Atx are a column compressed form of
\* the transpose of A.
TransposeCorrect == TransposeDone => TransposeOf(d, Cp, Ci, Cx)

(***************************************************************************)
(* C9                                                                      *)
(***************************************************************************)
\* two stored entries of A were given the same output slot
SharedSlot(q1, q2) == q1 # q2 /\ slot[q1] >= 0 /\ slot[q1] = slot[q2]

\* C9: two entries are given the same slot only in the OPENMP build, by threads
\* on different columns with an entry in the same row; the single thread of
\* the build without OPENMP gives every entry its own slot and leaves the
\* transpose of A (the arrays the function transpose computes), and a result
\* that is not the transpose comes only with a shared slot.
CursorRace ==
    /\ \A q1, q2 \in DOMAIN slot :
           SharedSlot(q1, q2) =>
               omp /\ ColOf(d, q1) # ColOf(d, q2) /\ d.A.i[q1] = d.A.i[q2]
    /\ TransposeDone /\ ~omp =>
           /\ TransposeOf(d, Cp, Ci, Cx)
           /\ [Atp |-> Cp, Ati |-> Ci, Atx |-> Cx]
                  = transpose(d, Array([k \in DOMAIN Ci |-> tpc.g]),
                              Array([k \in DOMAIN Cx |-> OfInt(tpc.g)]))
    /\ TransposeDone /\ ~TransposeOf(d, Cp, Ci, Cx) =>
           \E q1, q2 \in DOMAIN slot : SharedSlot(q1, q2)

\* the race: under OPENMP two entries of different columns took the same slot,
\* one overwrote the other and the result is not the transpose
CursorRaceWitness ==
    /\ omp
    /\ TransposeDone
    /\ \E q1, q2 \in DOMAIN slot :
           SharedSlot(q1, q2) /\ ColOf(d, q1) # ColOf(d, q2)
    /\ ~TransposeOf(d, Cp, Ci, Cx)

(***************************************************************************)
(* C2                                                                      *)
(***************************************************************************)
\* C2: whichever allocations of initPriv fail, it returns NULL, every buffer
\* it did allocate has been freed on return and no array whose allocation
\* failed was read or written.
AllocFailureReported ==
    call.name = "initPriv" /\ (\E a \in SiteSet : heap[call.h][a] = "failed") =>
        /\ ret[call.h] = "NULL"
        /\ \A a \in SiteSet : heap[call.h][a] \in {"failed", "freed"}
        /\ nullAccess[call.h] = {}

=============================================================================
